---- MODULE Spec2Model ----
(***************************************************************************)
(* A model of the fixed-size, type-erased array of src/arrays/array.c.     *)
(*                                                                         *)
(* One Array instance is modelled together with the C heap it allocates    *)
(* from.  Every action is one call of the public API, made either on the   *)
(* instance (self present) or on a NULL self pointer.  The record `last`   *)
(* holds the arguments and the results of the most recent call.            *)
(***************************************************************************)
EXTENDS Integers, Sequences, FiniteSets, TLC

\* ------------------------------------------------------------------ bounds
\* width of size_t in bits
SizeBits == 3
\* largest length a caller asks for (the wide calls of array_init ask for any size_t)
MaxLen == 2
\* largest element size a caller asks for
MaxElem == 2
\* largest request, in bytes, the heap can satisfy
HeapCap == 4
\* number of blocks the heap can hand out over a run
MaxBlocks == 2
\* bytes take the values 0..MaxByte
MaxByte == 1

\* --------------------------------------------------------------- constants
S_OK == 0
S_ERR_SELF_IS_NULL == 1
S_ERR_RETURN_PARAMS_IS_NULL == 2
S_ERR_OUT_OF_MEMORY == 4
S_ERR_OUT_OF_RANGE == 5
S_ERR_ELEMENT_SIZE_MISMATCH == 6
\* the call did not return: the process was stopped by a hardware trap
NO_RETURN == 99
\* the null pointer; heap blocks are numbered from 1
NULL == 0
\* marks an output location the call did not write
UNTOUCHED == 0 - 1
\* outcome of an integer division that trapped
TRAP == 0 - 1

RECURSIVE Pow2(_)
Pow2(n) == IF n = 0 THEN 1 ELSE 2 * Pow2(n - 1)

SIZE_MAX == Pow2(SizeBits) - 1

SizeT == 0..SIZE_MAX
Bytes == 0..MaxByte
Blocks == 1..MaxBlocks

\* inputs of the calls
Lengths == 0..MaxLen
ElemSizes == 0..MaxElem
Indices == 0..MaxLen
ValueSizes == 1..MaxElem
Values(n) == [1..n -> Bytes]

VARIABLES
    head,        \* Array.head: NULL or the block the instance points to
    length,      \* Array.length
    elem_size,   \* Array.elem_size
    storage,     \* the bytes of the block at head (<<>> when head is NULL)
    heap,        \* per block: how often it was allocated and freed
    trapped,     \* the process was stopped by a division trap
    last,        \* arguments and results of the most recent call
    written,     \* history: index -> value of the last successful set since the last successful init
    lastInitLen  \* history: length argument of the last successful init, 0 after a release

vars == <<head, length, elem_size, storage, heap, trapped, last, written, lastInitLen>>

inst == <<head, length, elem_size, storage>>

NoCall == [op |-> "none", self |-> FALSE, dst |-> FALSE, index |-> 0, value_size |-> 0,
           a_length |-> 0, a_elem_size |-> 0, status |-> S_OK, out |-> <<>>,
           len_out |-> UNTOUCHED, req |-> UNTOUCHED, divzero |-> FALSE, nfree |-> 0]
\* A call on a NULL self returns before it reads any other argument: `last`
\* records self and the destination of such a call and leaves the rest at 0.

\* ------------------------------------------------------------- the C heap
Live(b) == heap[b].allocs > heap[b].frees

Unused == {b \in Blocks : heap[b].allocs = 0}

Min(S) == CHOOSE x \in S : \A y \in S : x <= y

\* an allocator that hands out memory as it finds it
ZeroFill_stale(n) == [i \in 1..n |-> 1]

\* calloc's zero fill
ZeroFill(n) == [i \in 1..n |-> 0]

\* calloc(nmemb, size): the pointers it may return.  NULL is always possible
\* (allocation can fail at any time); a block is possible when the request fits
\* and the heap has a block left.
calloc(nmemb, size) ==
    {NULL} \cup (IF nmemb * size <= HeapCap /\ Unused # {} THEN {Min(Unused)} ELSE {})

\* free(p): free(NULL) does nothing
free(p) == IF p = NULL THEN heap ELSE [heap EXCEPT ![p].frees = @ + 1]

\* memcpy into the storage at byte offset off
memcpy_in(mem, off, src, n) ==
    [i \in 1..Len(mem) |-> IF i > off /\ i <= off + n THEN src[i - off] ELSE mem[i]]

\* memcpy out of the storage at byte offset off
memcpy_out(mem, off, n) == [i \in 1..n |-> mem[off + i]]

\* size_t multiplication
MulSizeT(a, b) == (a * b) % Pow2(SizeBits)

\* SIZE_MAX / elem_size, as the set of its possible results.  Division by zero
\* is undefined: the process traps (x86), or the quotient is 0 (ARM) or all
\* ones (RISC-V).
max_length(es) == IF es = 0 THEN {TRAP, 0, SIZE_MAX} ELSE {SIZE_MAX \div es}

\* a range check that is off by one at the largest permitted length
init_range_error_strict(len, m) == len = 0 \/ len >= m

\* `length == 0 || length > max_length` with max_length = m
init_range_error(len, m) == len = 0 \/ len > m

\* `index >= self->length`
index_out_of_range(index) == index >= length

\* a size check that only rejects values too large for an element
size_mismatch_larger(vs) == elem_size < vs

\* `self->elem_size != value_size`
size_mismatch(vs) == elem_size # vs

\* an offset that forgets the element size
elem_offset_unscaled(index) == index

\* `index * self->elem_size`, the byte offset of an element
elem_offset(index) == MulSizeT(index, elem_size)

Init ==
    /\ head = NULL
    /\ length = 0
    /\ elem_size = 0
    /\ storage = <<>>
    /\ heap = [b \in Blocks |-> [allocs |-> 0, frees |-> 0]]
    /\ trapped = FALSE
    /\ last = NoCall
    /\ written = <<>>
    /\ lastInitLen = 0

\* the history variables are left alone by a call that changes no element
SameHistory == UNCHANGED <<written, lastInitLen>>

\* ------------------------------------------------------------ array_init
init_self_null(len, es) ==
    /\ last' = [NoCall EXCEPT !.op = "init", !.status = S_ERR_SELF_IS_NULL]
    /\ UNCHANGED <<inst, heap, trapped>>
    /\ SameHistory

init_trap(len, es) ==
    /\ TRAP \in max_length(es)
    /\ trapped' = TRUE
    /\ last' = [NoCall EXCEPT !.op = "init", !.self = TRUE, !.a_length = len,
                              !.a_elem_size = es, !.status = NO_RETURN,
                              !.divzero = TRUE]
    /\ UNCHANGED <<inst, heap>>
    /\ SameHistory

init_out_of_range(len, es) ==
    \E m \in max_length(es) \ {TRAP} :
        /\ init_range_error(len, m)
        /\ last' = [NoCall EXCEPT !.op = "init", !.self = TRUE, !.a_length = len,
                                  !.a_elem_size = es, !.status = S_ERR_OUT_OF_RANGE,
                                  !.divzero = (es = 0)]
        /\ UNCHANGED <<inst, heap, trapped>>
        /\ SameHistory

\* an array_init that records the new shape before it knows the allocation failed
init_out_of_memory_early(len, es) ==
    \E m \in max_length(es) \ {TRAP} :
        /\ ~init_range_error(len, m)
        /\ NULL \in calloc(len, es)
        /\ last' = [NoCall EXCEPT !.op = "init", !.self = TRUE, !.a_length = len,
                                  !.a_elem_size = es, !.status = S_ERR_OUT_OF_MEMORY,
                                  !.req = len * es, !.divzero = (es = 0)]
        /\ length' = len
        /\ elem_size' = es
        /\ UNCHANGED <<head, storage, heap, trapped>>
        /\ SameHistory

init_out_of_memory(len, es) ==
    \E m \in max_length(es) \ {TRAP} :
        /\ ~init_range_error(len, m)
        /\ NULL \in calloc(len, es)
        /\ last' = [NoCall EXCEPT !.op = "init", !.self = TRUE, !.a_length = len,
                                  !.a_elem_size = es, !.status = S_ERR_OUT_OF_MEMORY,
                                  !.req = len * es, !.divzero = (es = 0)]
        /\ UNCHANGED <<inst, heap, trapped>>
        /\ SameHistory

init_ok(len, es) ==
    \E m \in max_length(es) \ {TRAP} :
        /\ ~init_range_error(len, m)
        /\ \E p \in calloc(len, es) \ {NULL} :
            /\ heap' = [heap EXCEPT ![p].allocs = @ + 1]
            /\ head' = p
            /\ storage' = ZeroFill(len * es)
            /\ length' = len
            /\ elem_size' = es
        /\ last' = [NoCall EXCEPT !.op = "init", !.self = TRUE, !.a_length = len,
                                  !.a_elem_size = es, !.status = S_OK,
                                  !.req = len * es, !.divzero = (es = 0)]
        /\ written' = <<>>
        /\ lastInitLen' = len
        /\ UNCHANGED trapped

array_init_call(len, es) ==
    \/ init_self_null(len, es)
    \/ init_trap(len, es)
    \/ init_out_of_range(len, es)
    \/ init_out_of_memory(len, es)
    \/ init_ok(len, es)

\* array_init called with the lengths and element sizes of an ordinary caller
array_init ==
    /\ ~trapped
    /\ \E len \in Lengths, es \in ElemSizes : array_init_call(len, es)

\* array_init called on the instance with any length and any element size > 0
array_init_wide ==
    /\ ~trapped
    /\ \E len \in SizeT, es \in SizeT \ {0} :
        \/ init_out_of_range(len, es)
        \/ init_out_of_memory(len, es)
        \/ init_ok(len, es)

\* ------------------------------------------------------------ array_free
free_self_null ==
    /\ last' = [NoCall EXCEPT !.op = "free", !.status = S_ERR_SELF_IS_NULL]
    /\ UNCHANGED <<inst, heap, trapped>>
    /\ SameHistory

\* an array_free that leaves the dangling pointer in head
free_ok_dangling ==
    /\ heap' = free(head)
    /\ storage' = <<>>
    /\ length' = 0
    /\ elem_size' = 0
    /\ last' = [NoCall EXCEPT !.op = "free", !.self = TRUE, !.status = S_OK,
                              !.nfree = IF last.nfree >= 1 THEN 2 ELSE 1]
    /\ written' = <<>>
    /\ lastInitLen' = 0
    /\ UNCHANGED <<head, trapped>>

free_ok ==
    /\ heap' = free(head)
    /\ head' = NULL
    /\ storage' = <<>>
    /\ length' = 0
    /\ elem_size' = 0
    /\ last' = [NoCall EXCEPT !.op = "free", !.self = TRUE, !.status = S_OK,
                              !.nfree = IF last.nfree >= 1 THEN 2 ELSE 1]
    /\ written' = <<>>
    /\ lastInitLen' = 0
    /\ UNCHANGED trapped

array_free ==
    /\ ~trapped
    /\ \/ free_self_null
       \/ free_ok

\* ------------------------------------------------------------- array_set
SetCall(self, index, vs, st) ==
    [NoCall EXCEPT !.op = "set", !.self = self, !.index = index, !.value_size = vs,
                   !.status = st]

set_self_null(index, vs) ==
    /\ last' = [NoCall EXCEPT !.op = "set", !.status = S_ERR_SELF_IS_NULL]
    /\ UNCHANGED <<inst, heap, trapped>>
    /\ SameHistory

set_out_of_range(index, vs) ==
    /\ index_out_of_range(index)
    /\ last' = SetCall(TRUE, index, vs, S_ERR_OUT_OF_RANGE)
    /\ UNCHANGED <<inst, heap, trapped>>
    /\ SameHistory

set_size_mismatch(index, vs) ==
    /\ ~index_out_of_range(index)
    /\ size_mismatch(vs)
    /\ last' = SetCall(TRUE, index, vs, S_ERR_ELEMENT_SIZE_MISMATCH)
    /\ UNCHANGED <<inst, heap, trapped>>
    /\ SameHistory

set_ok(index, vs) ==
    /\ ~index_out_of_range(index)
    /\ ~size_mismatch(vs)
    /\ \E value_in \in Values(vs) :
        /\ storage' = memcpy_in(storage, elem_offset(index), value_in, vs)
        /\ written' = [i \in DOMAIN written \cup {index} |->
                          IF i = index THEN value_in ELSE written[i]]
    /\ last' = SetCall(TRUE, index, vs, S_OK)
    /\ UNCHANGED <<head, length, elem_size, heap, trapped, lastInitLen>>

array_set ==
    /\ ~trapped
    /\ \E index \in Indices, vs \in ValueSizes :
        \/ set_self_null(index, vs)
        \/ set_out_of_range(index, vs)
        \/ set_size_mismatch(index, vs)
        \/ set_ok(index, vs)

\* ------------------------------------------------------------- array_get
GetCall(self, dst, index, vs, st, out) ==
    [NoCall EXCEPT !.op = "get", !.self = self, !.dst = dst, !.index = index,
                   !.value_size = vs, !.status = st, !.out = out]

get_self_null(dst, index, vs) ==
    /\ last' = [NoCall EXCEPT !.op = "get", !.dst = dst, !.status = S_ERR_SELF_IS_NULL]
    /\ UNCHANGED <<inst, heap, trapped>>
    /\ SameHistory

get_out_null(index, vs) ==
    /\ last' = GetCall(TRUE, FALSE, index, vs, S_ERR_RETURN_PARAMS_IS_NULL, <<>>)
    /\ UNCHANGED <<inst, heap, trapped>>
    /\ SameHistory

get_out_of_range(index, vs) ==
    /\ index_out_of_range(index)
    /\ last' = GetCall(TRUE, TRUE, index, vs, S_ERR_OUT_OF_RANGE, <<>>)
    /\ UNCHANGED <<inst, heap, trapped>>
    /\ SameHistory

get_size_mismatch(index, vs) ==
    /\ ~index_out_of_range(index)
    /\ size_mismatch(vs)
    /\ last' = GetCall(TRUE, TRUE, index, vs, S_ERR_ELEMENT_SIZE_MISMATCH, <<>>)
    /\ UNCHANGED <<inst, heap, trapped>>
    /\ SameHistory

get_ok(index, vs) ==
    /\ ~index_out_of_range(index)
    /\ ~size_mismatch(vs)
    /\ last' = GetCall(TRUE, TRUE, index, vs, S_OK,
                       memcpy_out(storage, elem_offset(index), vs))
    /\ UNCHANGED <<inst, heap, trapped>>
    /\ SameHistory

array_get ==
    /\ ~trapped
    /\ \E index \in Indices, vs \in ValueSizes :
        \/ \E dst \in BOOLEAN : get_self_null(dst, index, vs)
        \/ get_out_null(index, vs)
        \/ get_out_of_range(index, vs)
        \/ get_size_mismatch(index, vs)
        \/ get_ok(index, vs)

\* ------------------------------------------------------------- array_len
LenCall(self, dst, st, n) ==
    [NoCall EXCEPT !.op = "len", !.self = self, !.dst = dst, !.status = st,
                   !.len_out = n]

len_self_null ==
    /\ \E dst \in BOOLEAN : last' = LenCall(FALSE, dst, S_ERR_SELF_IS_NULL, UNTOUCHED)
    /\ UNCHANGED <<inst, heap, trapped>>
    /\ SameHistory

len_out_null ==
    /\ last' = LenCall(TRUE, FALSE, S_ERR_RETURN_PARAMS_IS_NULL, UNTOUCHED)
    /\ UNCHANGED <<inst, heap, trapped>>
    /\ SameHistory

\* an array_len that reports the size in bytes
len_ok_bytes ==
    /\ last' = LenCall(TRUE, TRUE, S_OK, length * elem_size)
    /\ UNCHANGED <<inst, heap, trapped>>
    /\ SameHistory

len_ok ==
    /\ last' = LenCall(TRUE, TRUE, S_OK, length)
    /\ UNCHANGED <<inst, heap, trapped>>
    /\ SameHistory

array_len ==
    /\ ~trapped
    /\ \/ len_self_null
       \/ len_out_null
       \/ len_ok

Next ==
    \/ array_init
    \/ array_free
    \/ array_set
    \/ array_get
    \/ array_len

Spec == Init /\ [][Next]_vars

\* the instance under calls of array_init with arbitrary size_t arguments
NextWide ==
    \/ array_init_wide
    \/ array_free

SpecWide == Init /\ [][NextWide]_vars

\* ================================================================ claims
\* what array_get(index, elem_size) would read: the element_size bytes of element index
Elem(mem, index, es) == SubSeq(mem, index * es + 1, (index + 1) * es)

AllZero(bytes) == \A k \in DOMAIN bytes : bytes[k] = 0

\* the last call was array_get on the instance with a destination and the
\* instance's element size
GetOnInstance ==
    /\ last.op = "get"
    /\ last.self
    /\ last.dst
    /\ last.value_size = elem_size

\* a get of an index that was set returns S_OK and the value last set there
GetReturnsWritten ==
    (GetOnInstance /\ last.index \in DOMAIN written)
        => (last.status = S_OK /\ last.out = written[last.index])

ReleaseStep == last'.op = "free" /\ last'.self /\ last'.status = S_OK

InitOkStep == last'.op = "init" /\ last'.self /\ last'.status = S_OK

SetOkStepOn(i) == last'.op = "set" /\ last'.status = S_OK /\ last'.index = i

\* after the step element i is still in range and reads as the value set there
StillReads(i) ==
    /\ i < length'
    /\ Elem(storage', i, elem_size') = written[i]

AccessOnInstance ==
    /\ last.op \in {"set", "get"}
    /\ last.self
    /\ last.op = "get" => last.dst

\* C4, as stated: on an allocated array, array_get and array_set with
\* value_size # elem_size return S_ERR_ELEMENT_SIZE_MISMATCH whether or not the
\* index is in range.
C4_Original ==
    (AccessOnInstance /\ length > 0 /\ elem_size > 0 /\ last.value_size # elem_size)
        => last.status = S_ERR_ELEMENT_SIZE_MISMATCH

\* C4, amended: array_get and array_set with value_size # elem_size return
\* S_ERR_ELEMENT_SIZE_MISMATCH when index < length, and S_ERR_OUT_OF_RANGE when
\* index >= length.
C4_SizeMismatch ==
    (AccessOnInstance /\ last.value_size # elem_size)
        => last.status = (IF last.index < length THEN S_ERR_ELEMENT_SIZE_MISMATCH
                          ELSE S_ERR_OUT_OF_RANGE)

\* a set of an element in range with a value of the wrong size, on a 2-element array
C4_Witness ==
    /\ last.op = "set"
    /\ last.self
    /\ length = 2
    /\ elem_size = 2
    /\ last.index = 1
    /\ last.value_size = 1
    /\ last.status = S_ERR_ELEMENT_SIZE_MISMATCH

\* the status the fixed order of checks gives array_get
GetStatus(self, dst, index, vs) ==
    IF ~self THEN S_ERR_SELF_IS_NULL
    ELSE IF ~dst THEN S_ERR_RETURN_PARAMS_IS_NULL
    ELSE IF index >= length THEN S_ERR_OUT_OF_RANGE
    ELSE IF vs # elem_size THEN S_ERR_ELEMENT_SIZE_MISMATCH
    ELSE S_OK

\* the status the fixed order of checks gives array_set
SetStatus(self, index, vs) ==
    IF ~self THEN S_ERR_SELF_IS_NULL
    ELSE IF index >= length THEN S_ERR_OUT_OF_RANGE
    ELSE IF vs # elem_size THEN S_ERR_ELEMENT_SIZE_MISMATCH
    ELSE S_OK

\* the status the fixed order of checks gives array_len
LenStatus(self, dst) ==
    IF ~self THEN S_ERR_SELF_IS_NULL
    ELSE IF ~dst THEN S_ERR_RETURN_PARAMS_IS_NULL
    ELSE S_OK

\* the statuses the fixed order of checks allows array_init
InitStatuses(self, len, es) ==
    IF ~self THEN {S_ERR_SELF_IS_NULL}
    ELSE IF len = 0 \/ len * es > SIZE_MAX THEN {S_ERR_OUT_OF_RANGE}
    ELSE {S_OK, S_ERR_OUT_OF_MEMORY}

\* the accessors return the status of the first violated precondition
AccessorOrder ==
    /\ last.op = "get" =>
          last.status = GetStatus(last.self, last.dst, last.index, last.value_size)
    /\ last.op = "set" => last.status = SetStatus(last.self, last.index, last.value_size)
    /\ last.op = "len" => last.status = LenStatus(last.self, last.dst)

\* C5: every operation returns the status of the first violated precondition
\* in the order absent handle, absent output, range, size; array_init checks
\* self, then range, then allocation.
C5_CheckOrder ==
    /\ AccessorOrder
    /\ last.op = "init" =>
          last.status \in InitStatuses(last.self, last.a_length, last.a_elem_size)

\* C6: array_free on the instance returns S_OK from every state and leaves head
\* NULL, length 0 and elem_size 0; a second array_free right after the first
\* does the same and deallocates nothing; no block is deallocated twice.
C6_ReleaseIdempotent ==
    [][ (last'.op = "free" /\ last'.self) =>
          /\ last'.status = S_OK
          /\ head' = NULL /\ length' = 0 /\ elem_size' = 0 /\ storage' = <<>>
          /\ (last.op = "free" /\ last.self) => heap' = heap
          /\ \A b \in Blocks : heap'[b].frees <= 1 /\ heap'[b].frees <= heap'[b].allocs ]_vars

\* a second array_free right after one that deallocated a block
C6_Witness ==
    /\ last.op = "free"
    /\ last.nfree = 2
    /\ last.status = S_OK
    /\ heap[1].frees = 1
    /\ head = NULL

\* C7: the instance is either allocated (length > 0, elem_size > 0, storage
\* present and of length * elem_size bytes) or empty (length 0, elem_size 0,
\* no storage).
C7_TwoStates ==
    \/ /\ length > 0
       /\ elem_size > 0
       /\ head # NULL
       /\ Live(head)
       /\ Len(storage) = length * elem_size
    \/ /\ length = 0
       /\ elem_size = 0
       /\ head = NULL
       /\ storage = <<>>

\* C8: for elem_size > 0, array_init on the instance returns S_ERR_OUT_OF_RANGE
\* exactly when length is 0 or the exact product length * elem_size exceeds
\* SIZE_MAX; otherwise it requests exactly length * elem_size bytes and returns
\* S_OK or S_ERR_OUT_OF_MEMORY.
C8_OverflowRejected ==
    (last.op = "init" /\ last.self /\ last.a_elem_size > 0) =>
        LET exact == last.a_length * last.a_elem_size
            reject == last.a_length = 0 \/ exact > SIZE_MAX
        IN /\ (last.status = S_ERR_OUT_OF_RANGE) <=> reject
           /\ ~reject => /\ last.status \in {S_OK, S_ERR_OUT_OF_MEMORY}
                         /\ last.req = exact

\* an init is rejected whose product exceeds SIZE_MAX and, wrapped to the width
\* of size_t, would be a small request the heap could satisfy
C8_Witness ==
    /\ last.op = "init"
    /\ last.self
    /\ last.a_length * last.a_elem_size > SIZE_MAX
    /\ MulSizeT(last.a_length, last.a_elem_size) \in 1..HeapCap
    /\ last.status = S_ERR_OUT_OF_RANGE

\* C9: array_len changes nothing, and on the instance with a destination it
\* returns S_OK and the length given to the last successful array_init, or 0
\* after a release.
C9_LenPureRead ==
    [][ last'.op = "len" =>
          /\ UNCHANGED <<head, length, elem_size, storage, heap>>
          /\ (last'.self /\ last'.dst) =>
                (last'.status = S_OK /\ last'.len_out = lastInitLen') ]_vars

\* array_len reports 2 on a 2-element array after a set
C9_Witness ==
    /\ last.op = "len"
    /\ last.status = S_OK
    /\ last.len_out = 2
    /\ lastInitLen = 2
    /\ DOMAIN written # {}

\* C10: array_init on the instance returns S_OK, S_ERR_OUT_OF_RANGE or
\* S_ERR_OUT_OF_MEMORY for every length and elem_size, never divides by zero
\* and never produces an instance with elem_size = 0 and length > 0.
C10_InitTotal ==
    /\ (last.op = "init" /\ last.self) =>
          /\ last.status \in {S_OK, S_ERR_OUT_OF_RANGE, S_ERR_OUT_OF_MEMORY}
          /\ ~last.divzero
    /\ ~(elem_size = 0 /\ length > 0)

====
